---- MODULE Spec2Model ----
(***************************************************************************)
(* Contact-form relay (express application): rate limiter, submission      *)
(* validator, credential minting and forwarding to the n8n webhook.        *)
(*                                                                         *)
(* JavaScript values are records [t, b, n, s]: t is the typeof/kind tag,   *)
(* b the boolean, n the number (or the length of an array), s the string.  *)
(* A string is the sequence of its runs [c, k]: k >= 1 copies of the       *)
(* character c, neighbouring runs having different characters, so that     *)
(* equal strings are equal sequences and a message of 5001 characters is   *)
(* one run.  An absent key of the JSON body is the value Undef.            *)
(***************************************************************************)
EXTENDS Integers, Sequences, FiniteSets, TLC

VARIABLES
    now,      \* wall clock in ms (Date.now())
    hits,     \* the limiter's store: key -> [totalHits, resetTime]
    reqs,     \* per /contact request: position in the handler and its response
    health,   \* responses sent by GET /health together with the table they saw
    vbody,    \* validator harness: the raw submission
    vres      \* validator harness: outcome of validateContactBody(vbody)

vars == <<now, hits, reqs, health, vbody, vres>>

----------------------------------------------------------------------------
(* JavaScript values *)

Undef   == [t |-> "undefined", b |-> FALSE, n |-> 0, s |-> <<>>]
Null    == [t |-> "null",      b |-> FALSE, n |-> 0, s |-> <<>>]
Bool(x) == [t |-> "boolean",   b |-> x,     n |-> 0, s |-> <<>>]
Num(x)  == [t |-> "number",    b |-> FALSE, n |-> x, s |-> <<>>]
Str(x)  == [t |-> "string",    b |-> FALSE, n |-> 0, s |-> x]
Obj     == [t |-> "object",    b |-> FALSE, n |-> 0, s |-> <<>>]
Arr(x)  == [t |-> "array",     b |-> FALSE, n |-> x, s |-> <<>>]

----------------------------------------------------------------------------
(* Strings *)

Run(c, k) == [c |-> c, k |-> k]

\* String.prototype.repeat on a one-character string
Rep(c, k) == IF k = 0 THEN <<>> ELSE <<Run(c, k)>>

\* concatenation of two strings
Cat(x, y) ==
    IF x = <<>> THEN y
    ELSE IF y = <<>> THEN x
    ELSE IF x[Len(x)].c = y[1].c
         THEN SubSeq(x, 1, Len(x) - 1)
                \o <<Run(y[1].c, x[Len(x)].k + y[1].k)>> \o Tail(y)
         ELSE x \o y

RECURSIVE Text(_)
\* the string whose characters are the elements of chars
Text(chars) ==
    IF chars = <<>> THEN <<>>
    ELSE Cat(<<Run(Head(chars), 1)>>, Text(Tail(chars)))

RECURSIVE length(_)
\* String.prototype.length
length(x) == IF x = <<>> THEN 0 ELSE Head(x).k + length(Tail(x))

----------------------------------------------------------------------------
(* Values *)

\* ToBoolean of the language: what `!v`, `v && ...`, `v ? :` and `v || ...` test
Truthy(v) ==
    CASE v.t = "undefined" -> FALSE
      [] v.t = "null"      -> FALSE
      [] v.t = "boolean"   -> v.b
      [] v.t = "number"    -> v.n # 0
      [] v.t = "string"    -> v.s # <<>>
      [] OTHER             -> TRUE

\* typeof v === 'string'
IsString(v) == v.t = "string"

\* whether v.trim is a function (String.prototype.trim); calling it on any
\* other value is a TypeError
HasTrim(v) == v.t = "string"

IsWs(c) == c \in {" ", "\t", "\n"}

\* String.prototype.trim: the runs from the first to the last one that is
\* not white space
trim(s) ==
    IF \A i \in 1..Len(s) : IsWs(s[i].c) THEN <<>>
    ELSE LET first == CHOOSE i \in 1..Len(s) :
                          /\ ~IsWs(s[i].c)
                          /\ \A j \in 1..(i - 1) : IsWs(s[j].c)
             last  == CHOOSE i \in 1..Len(s) :
                          /\ ~IsWs(s[i].c)
                          /\ \A j \in (i + 1)..Len(s) : IsWs(s[j].c)
         IN  SubSeq(s, first, last)

LowerChar(c) ==
    CASE c = "T" -> "t"
      [] c = "R" -> "r"
      [] c = "U" -> "u"
      [] c = "E" -> "e"
      [] c = "F" -> "f"
      [] c = "A" -> "a"
      [] c = "L" -> "l"
      [] c = "S" -> "s"
      [] OTHER   -> c

RECURSIVE toLowerCase(_)
\* String.prototype.toLowerCase
toLowerCase(s) ==
    IF s = <<>> THEN <<>>
    ELSE Cat(<<Run(LowerChar(Head(s).c), Head(s).k)>>, toLowerCase(Tail(s)))

\* mutant of LengthExceeds: the comparison includes the limit
LengthAtLeast(v, limit) ==
    CASE v.t = "string" -> length(v.s) >= limit
      [] v.t = "array"  -> v.n >= limit
      [] OTHER          -> FALSE

\* v.length > limit: a string's length, an array's length, undefined otherwise
\* (undefined > limit is false)
LengthExceeds(v, limit) ==
    CASE v.t = "string" -> length(v.s) > limit
      [] v.t = "array"  -> v.n > limit
      [] OTHER          -> FALSE

----------------------------------------------------------------------------
(* toBoolean, validateContactBody *)

MaxMessageLength == 5000

\* mutant of toBoolean: only the boolean true counts (privacyConsent !== true)
toBooleanStrict(value) == value.t = "boolean" /\ value.b

toBoolean(value) ==
    IF value.t = "boolean" THEN value.b
    ELSE IF value.t = "string"
         THEN toLowerCase(value.s) = Text(<<"t", "r", "u", "e">>)
         ELSE FALSE

\* mutant of RequiredMissing: the test of the trimmed value is left out
RequiredMissingNoTrim(v) == ~Truthy(v) \/ ~IsString(v)

\* !v || typeof v !== 'string' || v.trim() === ''
RequiredMissing(v) == ~Truthy(v) \/ ~IsString(v) \/ trim(v.s) = <<>>

\* errors.push(reason) under a condition
PushIf(errors, cond, reason) == IF cond THEN Append(errors, reason) ELSE errors

RECURSIVE join(_, _)
\* Array.prototype.join
join(list, sep) ==
    IF list = <<>> THEN ""
    ELSE IF Len(list) = 1 THEN list[1]
    ELSE list[1] \o sep \o join(Tail(list), sep)

\* the test of the honeypot branch; evaluating it throws when honeypot is
\* truthy and has no trim method
HoneypotThrows(body) == Truthy(body.honeypot) /\ ~HasTrim(body.honeypot)
HoneypotFilled(body) == Truthy(body.honeypot) /\ trim(body.honeypot.s) # <<>>

\* mutant of FieldErrors: the required-field checks form an else-if chain, so
\* only the first missing field is reported
FieldErrorsElseIf(body) ==
    LET e1 == IF RequiredMissing(body.name) THEN <<"Name is required">>
              ELSE IF RequiredMissing(body.email) THEN <<"Email is required">>
              ELSE IF RequiredMissing(body.subject) THEN <<"Subject is required">>
              ELSE IF RequiredMissing(body.message) THEN <<"Message is required">>
              ELSE <<>>
        e5 == PushIf(e1, toBoolean(body.privacyConsent) # TRUE,
                     "Privacy consent is required")
        e6 == PushIf(e5, Truthy(body.message)
                         /\ LengthExceeds(body.message, MaxMessageLength),
                     "Message must be 5000 characters or less")
    IN  e6

\* the errors array after the four required-field checks, the consent check
\* and the length check, in program order
FieldErrors(body) ==
    LET e1 == PushIf(<<>>, RequiredMissing(body.name), "Name is required")
        e2 == PushIf(e1, RequiredMissing(body.email), "Email is required")
        e3 == PushIf(e2, RequiredMissing(body.subject), "Subject is required")
        e4 == PushIf(e3, RequiredMissing(body.message), "Message is required")
        e5 == PushIf(e4, toBoolean(body.privacyConsent) # TRUE,
                     "Privacy consent is required")
        e6 == PushIf(e5, Truthy(body.message)
                         /\ LengthExceeds(body.message, MaxMessageLength),
                     "Message must be 5000 characters or less")
    IN  e6

\* The result of validateContactBody: threw is TRUE when it raised a TypeError;
\* otherwise {valid, errors}.  pushed is the local array errors at the return;
\* kind tells what the returned errors property is: that array ("array"), the
\* joined string str ("string") or null ("null").
Threw == [threw |-> TRUE, valid |-> FALSE, kind |-> "none", pushed |-> <<>>, str |-> ""]
Result(valid, kind, pushed, str) ==
    [threw |-> FALSE, valid |-> valid, kind |-> kind, pushed |-> pushed, str |-> str]

\* return {valid: errors.length === 0, errors: errors.length > 0 ? errors.join(', ') : null}
Joined(errors) ==
    IF Len(errors) > 0
    THEN Result(FALSE, "string", errors, join(errors, ", "))
    ELSE Result(TRUE, "null", errors, "")

\* mutant of validateContactBody: the honeypot branch lacks its return
validateContactBodyNoReturn(body) ==
    IF HoneypotThrows(body) THEN Threw
    ELSE Joined(PushIf(<<>>, HoneypotFilled(body), "Spam detected")
                  \o FieldErrors(body))

validateContactBody(body) ==
    IF HoneypotThrows(body) THEN Threw
    ELSE IF HoneypotFilled(body)
         THEN Result(FALSE, "array", <<"Spam detected">>, "")
         ELSE Joined(FieldErrors(body))

----------------------------------------------------------------------------
(* Client identity: getClientIp, express's req.ip, the limiter's keyGenerator *)

\* A request's connection data: the x-forwarded-for header (Undef when the
\* header is absent), the user-agent header and socket.remoteAddress.
Conn(xff, ua, remote) == [xff |-> xff, ua |-> ua, remote |-> remote]

Unknown == Text(<<"u", "n", "k", "n", "o", "w", "n">>)

\* s.split(',')[0]: the characters before the first comma
splitFirst(s) ==
    IF \A i \in 1..Len(s) : s[i].c # "," THEN s
    ELSE LET c == CHOOSE i \in 1..Len(s) :
                      s[i].c = "," /\ \A j \in 1..(i - 1) : s[j].c # ","
         IN  SubSeq(s, 1, c - 1)

\* v || w
OrElse(v, w) == IF Truthy(v) THEN v ELSE w

getClientIp(req) ==
    IF Truthy(req.xff)
    THEN trim(splitFirst(req.xff.s))
    ELSE OrElse(req.remote, Str(Unknown)).s

\* /^[\d.]+$/.test(s)
IsDigitsAndDots(s) ==
    /\ Len(s) > 0
    /\ \A i \in 1..Len(s) :
          s[i].c \in {"0", "1", "2", "3", "4", "5", "6", "7", "8", "9", "."}

\* req.ip under app.set('trust proxy', 1): the socket address is the one
\* trusted hop, so the address is the last entry of x-forwarded-for (entries
\* are separated by commas and spaces), or the socket address without one.
IsSep(c) == c \in {",", " "}
reqIp(req) ==
    IF req.xff.t = "string" /\ \E i \in 1..Len(req.xff.s) : ~IsSep(req.xff.s[i].c)
    THEN LET s    == req.xff.s
             last == CHOOSE i \in 1..Len(s) :
                         ~IsSep(s[i].c) /\ \A j \in (i + 1)..Len(s) : IsSep(s[j].c)
             first == CHOOSE i \in 1..last :
                         /\ \A j \in i..last : ~IsSep(s[j].c)
                         /\ (i = 1 \/ IsSep(s[i - 1].c))
         IN  Str(SubSeq(s, first, last))
    ELSE req.remote

keyGenerator(req) ==
    LET forwarded == req.xff
        firstIp   == trim(splitFirst(forwarded.s))
    IN  IF Truthy(forwarded) /\ IsString(forwarded)
           /\ firstIp # <<>> /\ IsDigitsAndDots(firstIp)
        THEN firstIp
        ELSE OrElse(reqIp(req), OrElse(req.remote, Str(Unknown))).s

----------------------------------------------------------------------------
(* The limiter created by rateLimit({windowMs, max, ...}) *)

windowMs == 60000
max == 3

NoHits == [totalHits |-> 0, resetTime |-> 0]

\* The store's increment: a key without a live window opens one at the
\* request's time; the count of the key goes up by one.
increment(table, key, t) ==
    IF table[key].totalHits = 0 \/ table[key].resetTime <= t
    THEN [table EXCEPT ![key] = [totalHits |-> 1, resetTime |-> t + windowMs]]
    ELSE [table EXCEPT ![key].totalHits = @ + 1]

\* the middleware calls the handler option instead of next() past the limit
OverLimit(entry) == entry.totalHits > max

----------------------------------------------------------------------------
(* Inputs: connections and submissions *)

A == Str(Text(<<"a">>))

\* A submission: the JSON body of POST /contact
Body(hp, nm, em, sj, msg, pc, co, ph, wa, ua, lang, ts) ==
    [honeypot |-> hp, name |-> nm, email |-> em, subject |-> sj,
     message |-> msg, privacyConsent |-> pc, company |-> co,
     phone |-> ph, whatsappConsent |-> wa, userAgent |-> ua,
     language |-> lang, timestamp |-> ts]

\* a submission with the validated fields given and no optional field
Form(honeypot, name, email, subject, message, privacyConsent) ==
    Body(honeypot, name, email, subject, message, privacyConsent,
         Undef, Undef, Undef, Undef, Undef, Undef)

\* Connections.  1: no forwarded header; 2: a dotted-digit client address;
\* 3, 4: a client address that is not digits and dots, relayed by two
\* different last hops; 5: no forwarded header and no socket address.
ConnTable ==
    << Conn(Undef, Str(Text(<<"U">>)), Str(Text(<<"9">>))),
       Conn(Str(Text(<<"1">>)), Undef, Str(Text(<<"9">>))),
       Conn(Str(Text(<<":", ",", " ", "1">>)), Undef, Str(Text(<<"9">>))),
       Conn(Str(Text(<<":", ",", "2">>)), Undef, Str(Text(<<"9">>))),
       Conn(Undef, Undef, Undef) >>

\* Submissions.  1: valid, no optional field; 2: name missing and consent
\* "false"; 3: honeypot filled; 4: numeric honeypot; 5: valid fields with a
\* numeric company; 6: valid, padded strings and every optional field;
\* 7: valid fields, message over the limit; 8: blank honeypot, blank subject;
\* 9: valid, blank honeypot, padded name, message of exactly the limit;
\* 10: valid, honeypot 0.
BodyTable ==
    << Form(Undef, A, A, A, A, Bool(TRUE)),
       Form(Str(Text(<<>>)), Undef, A, A, A, Str(Text(<<"f", "a", "l", "s", "e">>))),
       Form(Str(Text(<<"x">>)), A, A, A, A, Bool(TRUE)),
       Form(Num(1), A, A, A, A, Bool(TRUE)),
       Body(Undef, A, A, A, A, Bool(TRUE), Num(5), Undef, Undef, Undef, Undef, Undef),
       Body(Str(Text(<<" ">>)), Str(Text(<<" ", "a">>)), A, A, Str(Text(<<"a", " ">>)),
            Str(Text(<<"T", "r", "u", "e">>)), Str(Text(<<" ", "c">>)), Str(Text(<<"p", " ">>)),
            Str(Text(<<"t", "r", "u", "e">>)), Str(Text(<<"B">>)), Str(Text(<<"d", "e">>)), Str(Text(<<"0">>))),
       Form(Undef, A, A, A, Str(Rep("a", MaxMessageLength + 1)), Bool(TRUE)),
       Form(Str(Text(<<" ">>)), A, A, Str(Text(<<" ">>)), A, Bool(TRUE)),
       Form(Str(Text(<<" ">>)), Str(Text(<<" ", "a", " ">>)), A, A,
            Str(Rep("a", MaxMessageLength)), Str(Text(<<"t", "r", "u", "e">>))),
       Form(Num(0), A, A, A, A, Bool(TRUE)) >>

AllConns  == 1..Len(ConnTable)
AllBodies == 1..Len(BodyTable)

\* every key the limiter can see
Keys == {keyGenerator(ConnTable[c]) : c \in AllConns}

----------------------------------------------------------------------------
(* The payload built by the /contact handler *)

\* v ? v.trim() : null  -- throws when v is truthy without a trim method
TrimThrows(v) == Truthy(v) /\ ~HasTrim(v)

\* mutant of TrimOrNull: an absent field is left undefined
TrimOrUndefined(v) == IF Truthy(v) THEN Str(trim(v.s)) ELSE Undef

TrimOrNull(v) == IF Truthy(v) THEN Str(trim(v.s)) ELSE Null

PayloadThrows(body) == TrimThrows(body.company) \/ TrimThrows(body.phone)

Digit(d) == <<"0", "1", "2", "3", "4", "5", "6", "7", "8", "9">>[d + 1]

\* two decimal digits, three decimal digits (padStart with "0")
Pad2(n) == <<Digit(n \div 10), Digit(n % 10)>>
Pad3(n) == <<Digit(n \div 100)>> \o Pad2(n % 100)

\* new Date(t).toISOString() for a time t (ms since the epoch) within the
\* first hour: "1970-01-01T00:MM:SS.mmmZ"
toISOString(t) ==
    Text(<<"1", "9", "7", "0", "-", "0", "1", "-", "0", "1", "T", "0", "0", ":">>
         \o Pad2((t \div 60000) % 60) \o <<":">> \o Pad2((t \div 1000) % 60)
         \o <<".">> \o Pad3(t % 1000) \o <<"Z">>)

\* the object literal built at time t from the submission and the request
payload(body, req, t) ==
    [name            |-> Str(trim(body.name.s)),
     email           |-> Str(trim(body.email.s)),
     subject         |-> Str(trim(body.subject.s)),
     message         |-> Str(trim(body.message.s)),
     company         |-> TrimOrNull(body.company),
     phone           |-> TrimOrNull(body.phone),
     whatsappConsent |-> Bool(toBoolean(body.whatsappConsent)),
     privacyConsent  |-> Bool(toBoolean(body.privacyConsent)),
     ip              |-> Str(getClientIp(req)),
     userAgent       |-> OrElse(body.userAgent, OrElse(req.ua, Null)),
     language        |-> OrElse(body.language, Null),
     timestamp       |-> OrElse(body.timestamp, Null),
     createdAt       |-> Str(toISOString(t))]

\* JSON.stringify of an object: the members in which the value is not
\* undefined (a member with the value undefined is left out, null is kept)
stringify(obj) == [k \in {x \in DOMAIN obj : obj[x] # Undef} |-> obj[k]]

----------------------------------------------------------------------------
(* Requests and responses *)

\* A /contact request.  pc: "new" (not yet received), "signing" (awaiting
\* SignJWT.sign), "fetching" (awaiting fetch), "reading" (awaiting
\* response.text()), "done" (response sent).  admitted, validated, minted:
\* the request passed the limiter, validateContactBody was called for it, a
\* token was signed for it.  calls: outbound fetch calls made.  status, ok,
\* errKind/errStr/errList: the response (error a string, an array or unset).
\* dsStatus, dsBody: what the downstream answered.  logText: the errorText
\* written to the log.  payload: the handler's local payload (no member
\* before it is built).  sent: the members of the JSON body of the outbound
\* call (no member before the call).  responses: how many times a response
\* was sent.  current, resetTime: the count and the end of the window the
\* limiter found for the request's key (req.rateLimit).  fault: what raised
\* an error outside the downstream call ("validate", "payload", "sign").
Fresh ==
    [pc |-> "new", conn |-> 0, body |-> 0, at |-> 0,
     admitted |-> FALSE, validated |-> FALSE, minted |-> FALSE, calls |-> 0,
     status |-> 0, ok |-> FALSE, errKind |-> "none", errStr |-> "", errList |-> <<>>,
     dsStatus |-> 0, dsBody |-> "", logText |-> "", payload |-> <<>>,
     sent |-> <<>>, responses |-> 0, current |-> 0, resetTime |-> 0,
     fault |-> "none"]

\* res.status(status).json({ok: false, error: <string>})
SendError(rec, status, error) ==
    [rec EXCEPT !.pc = "done", !.status = status, !.ok = FALSE,
                !.errKind = "string", !.errStr = error, !.responses = @ + 1]

\* res.status(400).json({ok: false, error: validation.errors})
SendValidation(rec, validation) ==
    [rec EXCEPT !.pc = "done", !.status = 400, !.ok = FALSE,
                !.errKind = validation.kind, !.errStr = validation.str,
                !.errList = IF validation.kind = "array" THEN validation.pushed
                            ELSE <<>>,
                !.responses = @ + 1]

\* res.json({ok: true})
SendOk(rec) ==
    [rec EXCEPT !.pc = "done", !.status = 200, !.ok = TRUE, !.responses = @ + 1]

\* the limiter's handler option
TooManyRequests(rec) ==
    SendError(rec, 429, "Too many requests, please try again later")

\* the payload the handler builds for a request
payloadOf(rec) == payload(BodyTable[rec.body], ConnTable[rec.conn], rec.at)

\* the outer catch: the fault is logged and the generic response sent
ServerError(rec, fault) ==
    [SendError(rec, 500, "Server error") EXCEPT !.fault = fault]

\* The /contact handler up to its first await: validation, the payload, and
\* the call of SignJWT(...).sign; a TypeError lands in the outer catch.
contactHandler(rec) ==
    LET body       == BodyTable[rec.body]
        validation == validateContactBody(body)
        entered    == [rec EXCEPT !.validated = TRUE]
    IN  IF validation.threw THEN ServerError(entered, "validate")
        ELSE IF ~validation.valid THEN SendValidation(entered, validation)
        ELSE IF PayloadThrows(body) THEN ServerError(entered, "payload")
        ELSE [entered EXCEPT !.pc = "signing", !.payload = payloadOf(entered)]

----------------------------------------------------------------------------
(* Actions *)

TickMs        == 30000
MaxTicks      == 3
PipeTicks     == 1
MaxHealth     == 1
MaxReqs       == 2
MaxAdmReqs    == 4
MaxFlowReqs   == 4

\* POST /contact is received: the limiter counts the request under its key
\* and either answers 429 or passes it to the handler, which runs to its
\* first await.  (The event loop runs this without interleaving another
\* request's callbacks that touch the store.)
PostContact(r, conns, bodies) ==
    /\ reqs[r].pc = "new"
    /\ \A q \in DOMAIN reqs : q < r => reqs[q].pc # "new"
    /\ \E c \in conns, b \in bodies :
          LET key   == keyGenerator(ConnTable[c])
              table == increment(hits, key, now)
              rec   == [reqs[r] EXCEPT !.conn = c, !.body = b, !.at = now,
                                       !.current = table[key].totalHits,
                                       !.resetTime = table[key].resetTime]
          IN  /\ hits' = table
              /\ reqs' = [reqs EXCEPT ![r] =
                            IF OverLimit(table[key])
                            THEN TooManyRequests(rec)
                            ELSE contactHandler([rec EXCEPT !.admitted = TRUE])]
    /\ UNCHANGED <<now, health, vbody, vres>>

\* SignJWT(...).sign resolves: fetch is called with the payload and the token
SignResolve(r) ==
    /\ reqs[r].pc = "signing"
    /\ reqs' = [reqs EXCEPT ![r].pc = "fetching", ![r].minted = TRUE,
                            ![r].calls = @ + 1,
                            ![r].sent = stringify(reqs[r].payload)]
    /\ UNCHANGED <<now, hits, health, vbody, vres>>

\* mutant of SignReject: the signing sits inside the inner try, whose catch
\* answers
SignRejectInner(r) ==
    /\ reqs[r].pc = "signing"
    /\ reqs' = [reqs EXCEPT ![r] =
                   [SendError(@, 500, "n8n error") EXCEPT !.fault = "sign"]]
    /\ UNCHANGED <<now, hits, health, vbody, vres>>

\* SignJWT(...).sign rejects: the outer catch answers
SignReject(r) ==
    /\ reqs[r].pc = "signing"
    /\ reqs' = [reqs EXCEPT ![r] = ServerError(@, "sign")]
    /\ UNCHANGED <<now, hits, health, vbody, vres>>

DownstreamStatuses == {200, 503}
DownstreamBody(status) == IF status = 200 THEN "" ELSE "downstream detail"

\* response.ok
ResponseOk(status) == status >= 200 /\ status <= 299

\* fetch resolves with the downstream's response
FetchResolve(r) ==
    /\ reqs[r].pc = "fetching"
    /\ \E st \in DownstreamStatuses :
          LET got == [reqs[r] EXCEPT !.dsStatus = st, !.dsBody = DownstreamBody(st)]
          IN  reqs' = [reqs EXCEPT ![r] =
                         IF ResponseOk(st) THEN SendOk(got)
                         ELSE [got EXCEPT !.pc = "reading"]]
    /\ UNCHANGED <<now, hits, health, vbody, vres>>

\* mutant of FetchReject: the inner catch calls fetch once more before it
\* gives up
FetchRejectRetry(r) ==
    /\ reqs[r].pc = "fetching"
    /\ reqs' = [reqs EXCEPT ![r] =
                   IF @.calls < 2 THEN [@ EXCEPT !.calls = @ + 1]
                   ELSE SendError(@, 500, "n8n error")]
    /\ UNCHANGED <<now, hits, health, vbody, vres>>

\* fetch rejects (connection refused, DNS, TLS): the inner catch answers
FetchReject(r) ==
    /\ reqs[r].pc = "fetching"
    /\ reqs' = [reqs EXCEPT ![r] = SendError(@, 500, "n8n error")]
    /\ UNCHANGED <<now, hits, health, vbody, vres>>

\* mutant of RejectedAnswer: the downstream's status and text are passed on
RejectedAnswerLeak(rec, errorText) ==
    [SendError(rec, rec.dsStatus, errorText) EXCEPT !.logText = errorText]

\* mutant of RejectedAnswer: the branch lacks its return, so res.json({ok:
\* true}) runs after the error response
RejectedAnswerNoReturn(rec, errorText) ==
    [SendOk(SendError(rec, 500, "n8n error")) EXCEPT !.logText = errorText]

\* the answer after response.text() settled; errorText is only logged
RejectedAnswer(rec, errorText) ==
    [SendError(rec, 500, "n8n error") EXCEPT !.logText = errorText]

\* response.text() resolves with the downstream's body
TextResolve(r) ==
    /\ reqs[r].pc = "reading"
    /\ reqs' = [reqs EXCEPT ![r] = RejectedAnswer(@, @.dsBody)]
    /\ UNCHANGED <<now, hits, health, vbody, vres>>

\* response.text() rejects: .catch supplies the placeholder text
TextReject(r) ==
    /\ reqs[r].pc = "reading"
    /\ reqs' = [reqs EXCEPT ![r] = RejectedAnswer(@, "Unable to read error response")]
    /\ UNCHANGED <<now, hits, health, vbody, vres>>

\* whether the next /contact request under this key would be answered 429
Exhausted(key) == hits[key].totalHits >= max /\ hits[key].resetTime > now

\* mutant of Health: the route is registered behind contactRateLimiter
HealthLimited(c) ==
    /\ health.count < MaxHealth
    /\ LET key   == keyGenerator(ConnTable[c])
           table == increment(hits, key, now)
       IN  /\ hits' = table
           /\ health' = [count |-> health.count + 1,
                         status |-> IF OverLimit(table[key]) THEN 429 ELSE 200,
                         ok |-> ~OverLimit(table[key]),
                         exhausted |-> Exhausted(key)]
    /\ UNCHANGED <<now, reqs, vbody, vres>>

\* GET /health: res.json({ok: true}); the route has no limiter.  The record
\* keeps the response and whether the requesting connection's /contact quota
\* was exhausted at the time.
Health(c) ==
    /\ health.count < MaxHealth
    /\ health' = [count |-> health.count + 1, status |-> 200, ok |-> TRUE,
                  exhausted |-> Exhausted(keyGenerator(ConnTable[c]))]
    /\ UNCHANGED <<now, hits, reqs, vbody, vres>>

\* time passes
Tick(ticks) ==
    /\ now + TickMs <= ticks * TickMs
    /\ now' = now + TickMs
    /\ UNCHANGED <<hits, reqs, health, vbody, vres>>

\* the validator harness applies validateContactBody to the submission
NotRun == [threw |-> FALSE, valid |-> FALSE, kind |-> "notrun", pushed |-> <<>>, str |-> ""]
Validate ==
    /\ vres = NotRun
    /\ vres' = validateContactBody(vbody)
    /\ UNCHANGED <<now, hits, reqs, health, vbody>>

----------------------------------------------------------------------------
(* Specifications *)

InitServer(n) ==
    /\ now = 0
    /\ hits = [k \in Keys |-> NoHits]
    /\ reqs = [r \in 1..n |-> Fresh]
    /\ health = [count |-> 0, status |-> 0, ok |-> FALSE, exhausted |-> FALSE]

\* The request pipeline: a few requests, every kind of submission.
PipeConns  == {3}
PipeBodies == 1..6

Init == InitServer(MaxReqs) /\ vbody = BodyTable[1] /\ vres = NotRun

Next ==
    \/ \E r \in DOMAIN reqs : PostContact(r, PipeConns, PipeBodies)
    \/ \E r \in DOMAIN reqs : SignResolve(r)
    \/ \E r \in DOMAIN reqs : SignReject(r)
    \/ \E r \in DOMAIN reqs : FetchResolve(r)
    \/ \E r \in DOMAIN reqs : FetchReject(r)
    \/ \E r \in DOMAIN reqs : TextResolve(r)
    \/ \E r \in DOMAIN reqs : TextReject(r)
    \/ \E c \in PipeConns : Health(c)
    \/ Tick(PipeTicks)

Spec == Init /\ [][Next]_vars

\* Admission: enough requests to exhaust a quota, connections that share an
\* identity or a key, and submissions the handler answers before its first
\* await (so no request is ever suspended and the asynchronous steps are not
\* part of this next-state relation).
AdmConns  == {2, 3, 4}
AdmBodies == {2}

InitAdm == InitServer(MaxAdmReqs) /\ vbody = BodyTable[1] /\ vres = NotRun

NextAdm ==
    \/ \E r \in DOMAIN reqs : PostContact(r, AdmConns, AdmBodies)
    \/ \E c \in AdmConns : Health(c)
    \/ Tick(MaxTicks)

SpecAdm == InitAdm /\ [][NextAdm]_vars

\* Concurrent requests of one client within one window: enough requests to
\* exhaust the quota while earlier ones are suspended at signing, at the
\* downstream call or at reading the rejection; a valid and an invalid
\* submission.
FlowConns  == {2}
FlowBodies == {1, 2}

InitFlow == InitServer(MaxFlowReqs) /\ vbody = BodyTable[1] /\ vres = NotRun

NextFlow ==
    \/ \E r \in DOMAIN reqs : PostContact(r, FlowConns, FlowBodies)
    \/ \E r \in DOMAIN reqs : SignResolve(r)
    \/ \E r \in DOMAIN reqs : SignReject(r)
    \/ \E r \in DOMAIN reqs : FetchResolve(r)
    \/ \E r \in DOMAIN reqs : FetchReject(r)
    \/ \E r \in DOMAIN reqs : TextResolve(r)
    \/ \E r \in DOMAIN reqs : TextReject(r)

SpecFlow == InitFlow /\ [][NextFlow]_vars

\* a pending promise of request r settles: the signing, the downstream call
\* or the reading of the rejection body resolves or rejects
Settle(r) ==
    \/ SignResolve(r) \/ SignReject(r)
    \/ FetchResolve(r) \/ FetchReject(r)
    \/ TextResolve(r) \/ TextReject(r)

\* the same requests, every pending promise settling eventually
FairFlow == SpecFlow /\ \A r \in 1..MaxFlowReqs : WF_vars(Settle(r))

\* Concurrent requests of one client identity that reach the server through
\* two different last hops; a valid and an invalid submission.
ConcConns  == {3, 4}
ConcBodies == {1, 2}

NextConc ==
    \/ \E r \in DOMAIN reqs : PostContact(r, ConcConns, ConcBodies)
    \/ \E r \in DOMAIN reqs : SignResolve(r)
    \/ \E r \in DOMAIN reqs : SignReject(r)
    \/ \E r \in DOMAIN reqs : FetchResolve(r)
    \/ \E r \in DOMAIN reqs : FetchReject(r)
    \/ \E r \in DOMAIN reqs : TextResolve(r)
    \/ \E r \in DOMAIN reqs : TextReject(r)

SpecConc == InitFlow /\ [][NextConc]_vars

\* What is forwarded: submissions at the edges of validity (no consent, spam,
\* padded fields, a message over and at the limit, a blank required field).
OutConns  == {3}
OutBodies == {2, 3, 6, 7, 8, 9, 10}

InitOut == InitServer(MaxReqs) /\ vbody = BodyTable[1] /\ vres = NotRun

NextOut ==
    \/ \E r \in DOMAIN reqs : PostContact(r, OutConns, OutBodies)
    \/ \E r \in DOMAIN reqs : SignResolve(r)
    \/ \E r \in DOMAIN reqs : SignReject(r)
    \/ \E r \in DOMAIN reqs : FetchResolve(r)
    \/ \E r \in DOMAIN reqs : FetchReject(r)
    \/ \E r \in DOMAIN reqs : TextResolve(r)
    \/ \E r \in DOMAIN reqs : TextReject(r)

SpecOut == InitOut /\ [][NextOut]_vars

\* The validator alone, applied to one submission out of every combination
\* of the values below.
Blank == Str(Text(<<" ">>))

VHoneypots ==
    { Undef, Null, Str(<<>>), Blank, Str(Text(<<"x">>)), Str(Text(<<" ", "x", " ">>)),
      Num(0), Num(1), Bool(TRUE), Obj, Arr(0) }
VNames    == { Undef, A, Blank, Num(1) }
VEmails   == { Undef, A, Obj }
VSubjects == { Str(<<>>), A }
VMessages ==
    { Undef, Str(<<>>), A, Blank, Num(5),
      Str(Rep("a", MaxMessageLength)),
      Str(Rep("a", MaxMessageLength + 1)),
      Str(Cat(Rep("a", MaxMessageLength - 1), Rep(" ", 2))),
      Str(Rep(" ", MaxMessageLength + 1)),
      Arr(MaxMessageLength + 1) }
VConsents ==
    { Undef, Null, Bool(TRUE), Bool(FALSE), Num(1), Obj, Str(<<>>),
      Str(Text(<<"t", "r", "u", "e">>)), Str(Text(<<"T", "R", "U", "E">>)),
      Str(Text(<<"T", "r", "u", "e">>)), Str(Text(<<"f", "a", "l", "s", "e">>)),
      Str(Text(<<" ", "t", "r", "u", "e">>)), Str(Text(<<"1">>)) }

InitV ==
    /\ InitServer(0)
    /\ \E h \in VHoneypots, n \in VNames, e \in VEmails, s \in VSubjects,
          m \in VMessages, p \in VConsents : vbody = Form(h, n, e, s, m, p)
    /\ vres = NotRun

NextV == Validate

SpecV == InitV /\ [][NextV]_vars

----------------------------------------------------------------------------
(* Properties *)

Arrived(r) == reqs[r].pc # "new"
Done(r)    == reqs[r].pc = "done"

\* the client identity of a received request: what the Client Identity
\* Resolver yields for it (the payload's ip)
Identity(r) == getClientIp(ConnTable[reqs[r].conn])

\* requests received before r from the same identity (requests are received
\* in the order of their indices)
EarlierOfIdentity(r) == {q \in DOMAIN reqs : q < r /\ Identity(q) = Identity(r)}

RECURSIVE WindowStart(_)
\* the start of the identity's 60-second window that request r falls in: the
\* window opens with the identity's first request and with its first request
\* 60 seconds or more after the previous opening
WindowStart(r) ==
    IF EarlierOfIdentity(r) = {} THEN reqs[r].at
    ELSE LET p == CHOOSE q \in EarlierOfIdentity(r) :
                      \A x \in EarlierOfIdentity(r) : x <= q
         IN  IF reqs[r].at - WindowStart(p) >= 60000 THEN reqs[r].at
             ELSE WindowStart(p)

\* r is the Ordinal(r)-th request of its identity in its window
Ordinal(r) ==
    1 + Cardinality({q \in EarlierOfIdentity(r) : WindowStart(q) = WindowStart(r)})

\* C1: in one 60-second window of a resolved identity exactly the first 3
\* requests of that identity pass admission and reach the validator; the 4th
\* and later ones are answered 429 "Too many requests, please try again later"
\* and reach neither the validator nor the minter nor the forwarder.
C1_FirstThreePerIdentity ==
    \A r \in DOMAIN reqs :
        Arrived(r) =>
            IF Ordinal(r) <= 3
            THEN reqs[r].admitted /\ reqs[r].validated
            ELSE /\ reqs[r].status = 429
                 /\ reqs[r].errKind = "string"
                 /\ reqs[r].errStr = "Too many requests, please try again later"
                 /\ ~reqs[r].admitted /\ ~reqs[r].validated /\ ~reqs[r].minted
                 /\ reqs[r].calls = 0

\* C2: a request of identity A leaves unchanged the counter and window under
\* which the requests of every other identity B are counted.
C2_IndependentQuotas ==
    [][\A r \in DOMAIN reqs :
          (reqs[r].pc = "new" /\ reqs'[r].pc # "new") =>
              \A c \in AdmConns :
                  getClientIp(ConnTable[c]) # getClientIp(ConnTable[reqs'[r].conn])
                  => hits'[keyGenerator(ConnTable[c])] = hits[keyGenerator(ConnTable[c])]
      ]_vars

\* C3: every GET /health is answered 200 {ok: true} and leaves the limiter's
\* table and every /contact request as they were.
C3_HealthAlwaysOk ==
    [][health' # health =>
          /\ health'.status = 200 /\ health'.ok
          /\ hits' = hits /\ reqs' = reqs
      ]_vars

\* C3 witness: /health answered {ok: true} for a connection whose /contact
\* quota was exhausted at that moment
C3_HealthWhileExhausted ==
    health.count > 0 /\ health.exhausted /\ health.status = 200 /\ health.ok

Ran == vres # NotRun

Blankish(s) == \A i \in 1..Len(s) : IsWs(s[i].c)

\* the honeypot is a string that is not empty after trimming
FilledHoneypot(body) == body.honeypot.t = "string" /\ ~Blankish(body.honeypot.s)

\* the honeypot is absent, or a string that is empty after trimming
EmptyHoneypot(body) ==
    body.honeypot.t = "undefined"
        \/ (body.honeypot.t = "string" /\ Blankish(body.honeypot.s))

\* a required field is absent, not a string, or empty after trim
FieldMissing(v) == v.t = "undefined" \/ v.t # "string" \/ Blankish(v.s)

InSeq(x, seq) == \E i \in 1..Len(seq) : seq[i] = x

ConsentReason == "Privacy consent is required"
LengthReason  == "Message must be 5000 characters or less"

\* C4: a submission whose honeypot is non-empty after trimming yields exactly
\* the single reason "Spam detected", whatever the other fields are.
C4_SpamOnly ==
    (Ran /\ FilledHoneypot(vbody)) =>
        /\ ~vres.threw /\ ~vres.valid
        /\ vres.kind = "array"
        /\ vres.pushed = <<"Spam detected">>

\* C4 witness: a filled honeypot together with a missing name, refused
\* consent and an over-long message
C4_SpamWithBadFields ==
    /\ Ran /\ FilledHoneypot(vbody)
    /\ vbody.name = Undef
    /\ vbody.privacyConsent = Bool(FALSE)
    /\ vbody.message.t = "string" /\ length(vbody.message.s) > 5000
    /\ vres.pushed = <<"Spam detected">>

\* C5: validateContactBody never throws, whatever the types of the fields.
C5_ValidatorTotal == Ran => ~vres.threw

ReasonIf(cond, reason) == IF cond THEN <<reason>> ELSE <<>>

\* the reasons in the fixed order name, email, subject, message, consent, length
ReasonsInOrder(n, e, s, m, c, l) ==
    ReasonIf(n, "Name is required") \o ReasonIf(e, "Email is required")
        \o ReasonIf(s, "Subject is required") \o ReasonIf(m, "Message is required")
        \o ReasonIf(c, ConsentReason) \o ReasonIf(l, LengthReason)

RECURSIVE CommaJoined(_)
CommaJoined(list) ==
    IF Len(list) = 1 THEN list[1]
    ELSE CommaJoined(SubSeq(list, 1, Len(list) - 1)) \o ", " \o list[Len(list)]

\* C6: with an empty honeypot, each of name, email, subject, message that is
\* absent, not a string or blank contributes its own reason, independently of
\* the others, and the error string is the reasons in the order name, email,
\* subject, message, consent, length, joined by ", ".
C6_FieldReasonsInOrder ==
    (Ran /\ EmptyHoneypot(vbody)) =>
        \E c \in BOOLEAN, l \in BOOLEAN :
            LET expected == ReasonsInOrder(FieldMissing(vbody.name),
                                           FieldMissing(vbody.email),
                                           FieldMissing(vbody.subject),
                                           FieldMissing(vbody.message), c, l)
            IN  /\ ~vres.threw
                /\ vres.pushed = expected
                /\ vres.valid = (expected = <<>>)
                /\ expected # <<>> =>
                       vres.kind = "string" /\ vres.str = CommaJoined(expected)

\* C6 witness: name and email missing, the rest in order
C6_TwoFieldsMissing ==
    /\ Ran /\ EmptyHoneypot(vbody)
    /\ vbody.name = Undef /\ vbody.email.t = "object"
    /\ vres.str = "Name is required, Email is required"

\* every spelling of "true" in upper and lower case letters
TrueSpellings ==
    {Text(<<a, b, c, d>>) :
        a \in {"t", "T"}, b \in {"r", "R"}, c \in {"u", "U"}, d \in {"e", "E"}}

\* the boolean true, or a string equal to "true" ignoring case
ConsentAccepted(v) == v = Bool(TRUE) \/ (v.t = "string" /\ v.s \in TrueSpellings)

\* C7 as claimed: whenever validation returns, the consent reason is appended
\* exactly when privacyConsent is neither true nor a spelling of "true".
C7_ConsentExact ==
    (Ran /\ ~vres.threw) =>
        (InSeq(ConsentReason, vres.pushed) <=> ~ConsentAccepted(vbody.privacyConsent))

\* C7 amended: with an empty honeypot, the consent reason is appended exactly
\* when privacyConsent is neither true nor a spelling of "true".
C7_ConsentExactNoSpam ==
    (Ran /\ EmptyHoneypot(vbody)) =>
        /\ ~vres.threw
        /\ InSeq(ConsentReason, vres.pushed) <=> ~ConsentAccepted(vbody.privacyConsent)

\* C7 witness: the string "TRUE" is accepted and the submission is valid
C7_UpperCaseTrueAccepted ==
    /\ Ran /\ EmptyHoneypot(vbody)
    /\ vbody.privacyConsent = Str(Text(<<"T", "R", "U", "E">>))
    /\ vres.valid

\* C8 as claimed: whenever validation returns for a string message, the
\* length reason is produced exactly when the message has 5001 characters or
\* more.
C8_LengthBoundary ==
    (Ran /\ ~vres.threw /\ vbody.message.t = "string") =>
        (InSeq(LengthReason, vres.pushed) <=> length(vbody.message.s) >= 5001)

\* C8 amended: a message of at most 5000 characters never produces the length
\* reason, and with an empty honeypot a message of 5001 characters or more
\* always does.
C8_LengthBoundaryNoSpam ==
    (Ran /\ vbody.message.t = "string") =>
        /\ length(vbody.message.s) <= 5000 => ~InSeq(LengthReason, vres.pushed)
        /\ (length(vbody.message.s) >= 5001 /\ EmptyHoneypot(vbody)) =>
               InSeq(LengthReason, vres.pushed) /\ ~vres.valid

\* C8 witness: 5001 characters, rejected for the length alone
C8_OverLimitRejected ==
    /\ Ran /\ EmptyHoneypot(vbody)
    /\ vbody.message.t = "string" /\ length(vbody.message.s) = 5001
    /\ vres.pushed = <<LengthReason>>

\* a submission that fails validation: a honeypot that is not empty, a
\* missing required field, no consent, or a message over 5000 characters
InvalidSubmission(body) ==
    \/ ~EmptyHoneypot(body)
    \/ FieldMissing(body.name) \/ FieldMissing(body.email)
    \/ FieldMissing(body.subject) \/ FieldMissing(body.message)
    \/ ~ConsentAccepted(body.privacyConsent)
    \/ (body.message.t = "string" /\ length(body.message.s) > 5000)

\* C9: every admitted request whose submission fails validation, spam
\* included, is answered 400 with {ok: false, error: <one string>}.
C9_ValidationFailure400 ==
    \A r \in DOMAIN reqs :
        (Done(r) /\ reqs[r].admitted /\ InvalidSubmission(BodyTable[reqs[r].body])) =>
            /\ reqs[r].status = 400
            /\ ~reqs[r].ok
            /\ reqs[r].errKind = "string"

\* the forward of a request failed: fetch was called and the downstream
\* answered outside 200..299, or no answer came (dsStatus 0)
ForwardFailed(r) ==
    /\ Done(r) /\ reqs[r].calls > 0
    /\ ~(reqs[r].dsStatus >= 200 /\ reqs[r].dsStatus <= 299)

\* C10: a forward that failed, by a non-success status or at transport level,
\* is answered 500 {ok: false, error: "n8n error"}; the response carries
\* neither the downstream's status nor its body, and whether the downstream's
\* body could be read makes no difference.
C10_DownstreamFailureOpaque ==
    \A r \in DOMAIN reqs :
        ForwardFailed(r) =>
            /\ reqs[r].status = 500
            /\ ~reqs[r].ok
            /\ reqs[r].errKind = "string"
            /\ reqs[r].errStr = "n8n error"
            /\ reqs[r].status # reqs[r].dsStatus
            /\ reqs[r].errStr # reqs[r].dsBody

\* C10 witness: the downstream answered 503 and its body could not be read
C10_UnreadableRejection ==
    \E r \in DOMAIN reqs :
        /\ ForwardFailed(r)
        /\ reqs[r].dsStatus = 503
        /\ reqs[r].logText = "Unable to read error response"
        /\ reqs[r].status = 500 /\ reqs[r].errStr = "n8n error"

PayloadKeys ==
    {"name", "email", "subject", "message", "company", "phone",
     "whatsappConsent", "privacyConsent", "ip", "userAgent", "language",
     "timestamp", "createdAt"}

\* an outbound call was made for request r
Forwarded(r) == reqs[r].calls > 0

\* the value the serialized payload holds under key, or Undef when the key
\* is omitted
SentValue(r, key) == IF key \in DOMAIN reqs[r].sent THEN reqs[r].sent[key] ELSE Undef

\* C11: the JSON body of every outbound call has every payload key; company,
\* phone, language and timestamp are null when the submission lacks them,
\* userAgent is null when the submission lacks it and the request has no
\* user-agent header, and whatsappConsent and privacyConsent are booleans.
C11_PayloadKeysExplicit ==
    \A r \in DOMAIN reqs :
        Forwarded(r) =>
            LET body == BodyTable[reqs[r].body]
                req  == ConnTable[reqs[r].conn]
            IN  /\ DOMAIN reqs[r].sent = PayloadKeys
                /\ \A k \in {"company", "phone", "language", "timestamp"} :
                       body[k] = Undef => SentValue(r, k) = Null
                /\ (body.userAgent = Undef /\ req.ua = Undef) =>
                       SentValue(r, "userAgent") = Null
                /\ SentValue(r, "whatsappConsent").t = "boolean"
                /\ SentValue(r, "privacyConsent").t = "boolean"

\* C11 witness: a forwarded submission without any optional field, from a
\* request without a user-agent header
C11_AllOptionalsAbsent ==
    \E r \in DOMAIN reqs :
        /\ Forwarded(r)
        /\ \A k \in {"company", "phone", "language", "timestamp", "userAgent"} :
               BodyTable[reqs[r].body][k] = Undef /\ SentValue(r, k) = Null
        /\ ConnTable[reqs[r].conn].ua = Undef
        /\ BodyTable[reqs[r].body].whatsappConsent = Undef
        /\ SentValue(r, "whatsappConsent") = Bool(FALSE)

\* the positions of the handler in program order
Position(pc) ==
    CASE pc = "new"      -> 0
      [] pc = "signing"  -> 1
      [] pc = "fetching" -> 2
      [] pc = "reading"  -> 3
      [] pc = "done"     -> 4

\* C12: a step makes an outbound call only for a request that was admitted,
\* whose submission was validated and is valid, and whose credential was
\* minted in that step after the validation; it is the request's only call;
\* a request never moves back in the order admission, validation, minting,
\* forward, and one that was denied or found invalid ends without a call.
C12_LinearPipeline ==
    [][\A r \in DOMAIN reqs :
          /\ Position(reqs'[r].pc) >= Position(reqs[r].pc)
          /\ reqs'[r].calls <= 1
          /\ reqs'[r].validated => reqs'[r].admitted
          /\ reqs'[r].minted => reqs'[r].validated
          /\ reqs'[r].calls # reqs[r].calls =>
                 /\ reqs[r].pc = "signing" /\ reqs[r].calls = 0
                 /\ reqs[r].admitted /\ reqs[r].validated
                 /\ ~InvalidSubmission(BodyTable[reqs[r].body])
                 /\ ~reqs[r].minted /\ reqs'[r].minted
          /\ (Done(r) /\ reqs[r].calls = 0) => reqs'[r] = reqs[r]
      ]_vars

\* C12 witness: one request was denied without a call, and another made its
\* single call, saw the transport fail and ended without a second call
C12_FailedOnceNoRetry ==
    \E r, q \in DOMAIN reqs :
        /\ Done(r) /\ reqs[r].calls = 1 /\ reqs[r].dsStatus = 0
        /\ reqs[r].status = 500 /\ reqs[r].errStr = "n8n error"
        /\ Done(q) /\ reqs[q].status = 429 /\ reqs[q].calls = 0
        /\ reqs[q].body = 1

\* C13: every received request ends, and (with every pending promise
\* settling) does so eventually; a request that ended has sent exactly one
\* response, with status 200, 400, 429 or 500, and no request sends a
\* second one or enters a position of the handler again.
C13_OneResponseEventually ==
    /\ \A r \in 1..MaxFlowReqs : Arrived(r) ~> Done(r)
    /\ [](\A r \in 1..MaxFlowReqs :
             /\ reqs[r].responses <= 1
             /\ Done(r) <=> reqs[r].responses = 1
             /\ Done(r) => reqs[r].status \in {200, 400, 429, 500})
    /\ [][\A r \in 1..MaxFlowReqs :
             reqs'[r].pc # reqs[r].pc => Position(reqs'[r].pc) > Position(reqs[r].pc)
         ]_vars

\* C13 witness: a request that was suspended at the signing, at the
\* downstream call and at the reading of the rejection body has ended with
\* its one response
C13_EndedAfterEverySuspension ==
    \E r \in DOMAIN reqs :
        /\ Done(r) /\ reqs[r].responses = 1
        /\ reqs[r].minted /\ reqs[r].dsStatus = 503
        /\ reqs[r].logText = "downstream detail"
        /\ reqs[r].status = 500

\* C14: the window a request is counted in is the window of its resolved
\* identity: it ends 60 seconds after the identity's request that opened
\* it, the request's count is its rank among the identity's requests of that
\* window, and a request that arrives 60 seconds or more after the opening
\* of the identity's previous window is admitted with the count 1, whatever
\* other identities did.
C14_WindowPerIdentity ==
    \A r \in DOMAIN reqs :
        Arrived(r) =>
            /\ reqs[r].resetTime = WindowStart(r) + 60000
            /\ reqs[r].current = Ordinal(r)
            /\ Ordinal(r) = 1 => reqs[r].admitted

\* the received requests of r's identity that fall in r's window
SameWindow(r) ==
    {q \in DOMAIN reqs :
        Arrived(q) /\ Identity(q) = Identity(r) /\ WindowStart(q) = WindowStart(r)}

\* C15: however the requests of one identity interleave, also when they
\* arrive while earlier ones are suspended, no increment is lost (each
\* request is counted with its rank among the identity's requests of the
\* window) and at most 3 requests of the window are admitted.
C15_AtomicCounter ==
    \A r \in DOMAIN reqs :
        Arrived(r) =>
            /\ reqs[r].current = Cardinality({q \in SameWindow(r) : q <= r})
            /\ Cardinality({q \in SameWindow(r) : reqs[q].admitted}) <= 3

\* the key under which the limiter counted a received request
Key(r) == keyGenerator(ConnTable[reqs[r].conn])

\* C16: the limiter's key of every received request is the identity the
\* Client Identity Resolver gives it (the payload's ip), so two requests
\* share a counter exactly when they have the same resolved identity.
C16_KeyIsIdentity ==
    \A r \in DOMAIN reqs :
        Arrived(r) =>
            /\ Key(r) = Identity(r)
            /\ \A q \in DOMAIN reqs :
                   Arrived(q) => ((Key(q) = Key(r)) <=> (Identity(q) = Identity(r)))

\* C17: a request whose signing raised an error, or whose handler raised any
\* other error outside the downstream call, is answered 500 {ok: false,
\* error: "Server error"} and makes no outbound call; a signing error only
\* arises for an admitted request with a valid submission.
C17_FaultIsServerError ==
    \A r \in DOMAIN reqs :
        reqs[r].fault # "none" =>
            /\ Done(r) /\ reqs[r].status = 500 /\ ~reqs[r].ok
            /\ reqs[r].errKind = "string" /\ reqs[r].errStr = "Server error"
            /\ reqs[r].calls = 0 /\ reqs[r].sent = <<>>
            /\ reqs[r].fault = "sign" =>
                   /\ reqs[r].admitted /\ ~reqs[r].minted
                   /\ ~InvalidSubmission(BodyTable[reqs[r].body])

\* C17 witness: the signing failed for one request; the building of the
\* payload failed for another
C17_SigningFailed ==
    \E r, q \in DOMAIN reqs :
        /\ reqs[r].fault = "sign" /\ reqs[r].status = 500
        /\ reqs[r].errStr = "Server error" /\ reqs[r].calls = 0
        /\ reqs[q].fault = "payload" /\ reqs[q].errStr = "Server error"

\* a string that is not empty and neither starts nor ends with white space
TrimmedNonEmpty(v) ==
    /\ v.t = "string" /\ v.s # <<>>
    /\ ~IsWs(v.s[1].c) /\ ~IsWs(v.s[Len(v.s)].c)

\* the honeypot holds nothing: it is absent or falsy, or a blank string
HoneypotHoldsNothing(body) ==
    body.honeypot.t \in {"undefined", "null"} \/ body.honeypot = Bool(FALSE)
        \/ body.honeypot = Num(0)
        \/ (body.honeypot.t = "string" /\ Blankish(body.honeypot.s))

\* C18: the payload of every outbound call has name, email, subject and
\* message as non-empty strings without leading or trailing white space, a
\* message of at most 5000 characters and privacyConsent true, and its
\* submission's honeypot held nothing.
C18_ForwardedPayloadClean ==
    \A r \in DOMAIN reqs :
        Forwarded(r) =>
            /\ \A k \in {"name", "email", "subject", "message"} :
                   TrimmedNonEmpty(SentValue(r, k))
            /\ length(SentValue(r, "message").s) <= 5000
            /\ SentValue(r, "privacyConsent") = Bool(TRUE)
            /\ HoneypotHoldsNothing(BodyTable[reqs[r].body])

\* C18 witness: a submission with a blank honeypot, a padded name and a
\* message of exactly 5000 characters was forwarded with the name trimmed
C18_PaddedAtLimitForwarded ==
    \E r \in DOMAIN reqs :
        /\ Forwarded(r)
        /\ BodyTable[reqs[r].body].honeypot = Blank
        /\ BodyTable[reqs[r].body].name = Str(Text(<<" ", "a", " ">>))
        /\ SentValue(r, "name") = A
        /\ length(SentValue(r, "message").s) = 5000

\* C19: every request of an identity uses up its quota, whatever its
\* outcome: a request that arrives after 3 requests of its identity in the
\* same window, be they answered 200, 400 or 500 or still pending, is
\* answered 429 and not admitted, also when its submission is valid.
C19_QuotaUsedWhateverOutcome ==
    \A r \in DOMAIN reqs :
        (Arrived(r) /\ Cardinality({q \in SameWindow(r) : q < r}) >= 3) =>
            /\ reqs[r].status = 429
            /\ ~reqs[r].admitted /\ ~reqs[r].validated /\ reqs[r].calls = 0

====
